---- MODULE Spec2Model ----
(***************************************************************************)
(* Model of the CDM validation engine of cdscdm-tools                      *)
(* (src/cdscdm_tools/cdm.py).  Every check function is a pure function of  *)
(* its arguments that appends diagnostics to a structlog logger; it is     *)
(* modelled as an operator returning the sequence of diagnostics it emits  *)
(* (and its return value).  The actions call the functions on inputs drawn *)
(* from bounded sets and record the captured log entries.                  *)
(*                                                                         *)
(* Python values:                                                          *)
(*   - None is the string None;                                            *)
(*   - a mapping key is [isstr, s]: a str key s, or a non-string key whose *)
(*     repr() is s;                                                        *)
(*   - a dict is the sequence of its items [k, v] in iteration order;      *)
(*   - a diagnostic is [level, event, kw, bound]: kw holds the values of   *)
(*     the keyword arguments of the call (and the name interpolated into   *)
(*     an f-string event), bound the context bound to the logger.          *)
(***************************************************************************)
EXTENDS Integers, Sequences, FiniteSets, TLC

VARIABLES call, args, entries, ret, pc

vars == <<call, args, entries, ret, pc>>

None == "<None>"

\* ------------------------------------------------------------------ bounds
MaxItems == 3
MaxDefs == 3
MaxLen == 3
MaxVal == 2
MaxVars == 3
MaxEntities == 2
MaxDims == 2
MaxTables == 2

\* --------------------------------------------------------- python helpers
StrKey(s) == [isstr |-> TRUE, s |-> s]
ObjKey(s) == [isstr |-> FALSE, s |-> s]

Range(f) == {f[i] : i \in DOMAIN f}

RECURSIVE SeqsUpTo(_, _)
SeqsUpTo(S, n) ==
    IF n = 0 THEN {<<>>}
    ELSE LET shorter == SeqsUpTo(S, n - 1)
         IN  shorter \cup {Append(q, x) : q \in {r \in shorter : Len(r) = n - 1}, x \in S}

DistinctKeys(m) == \A i, j \in DOMAIN m : m[i].k = m[j].k => i = j

\* the dicts of at most n items with keys in K and values in V
Dicts(K, V, n) ==
    {m \in SeqsUpTo([k : K, v : V], n) : DistinctKeys(m)}

HasKey(d, key) == \E i \in DOMAIN d : d[i].k = key

\* dict.get(key): None when the key is absent
Get(d, key) ==
    IF HasKey(d, key) THEN d[CHOOSE i \in DOMAIN d : d[i].k = key].v ELSE None

\* d[key] = value: an existing key keeps its place, a new key goes last
SetItem(d, key, value) ==
    IF HasKey(d, key)
    THEN [i \in DOMAIN d |-> IF d[i].k = key THEN [k |-> key, v |-> value] ELSE d[i]]
    ELSE Append(d, [k |-> key, v |-> value])

Keys(d) == [i \in DOMAIN d |-> d[i].k]

\* ------------------------------------------------------------- the logger
BindKeys ==
    {"coord_name", "data_var_name", "standard_name", "expected_units", "units",
     "expected_standard_name"}

LOGGER == [b \in BindKeys |-> None]

Bind(log, key, value) == [log EXCEPT ![key] = value]

Warning(log, event, kw) ==
    [level |-> "warning", event |-> event, kw |-> kw, bound |-> log]

Error(log, event, kw) ==
    [level |-> "error", event |-> event, kw |-> kw, bound |-> log]

\* ------------------------------------------------------- module constants
CDM_ATTRS == <<"title", "history", "institution", "source", "comment", "references">>

CDM_ANCILLARY_VARS == {"crs"}

TIME_DTYPE_NAMES == {"datetime64[ns]", "timedelta64[ns]"}

CF_CONVENTIONS == {"CF-1.8", "CF-1.7", "CF-1.6"}

\* -------------------------------------------------------- sanitise_mapping
\* the keys of the returned dict are the keys [isstr, s] that the code stores
RECURSIVE sanitise_from(_, _, _, _)
sanitise_from(mapping, i, clean, log) ==
    IF i > Len(mapping) THEN [ret |-> clean, out |-> <<>>]
    ELSE LET key == mapping[i].k
             value == mapping[i].v
         IN  IF key.isstr
             THEN sanitise_from(mapping, i + 1, SetItem(clean, key, value), log)
             ELSE LET key_repr == StrKey(key.s)
                      rest == sanitise_from(mapping, i + 1,
                                            SetItem(clean, key_repr, value), log)
                  IN  [ret |-> rest.ret,
                       out |-> <<Warning(log, "non-string key", <<key_repr.s>>)>> \o rest.out]

\* mutant: the first value stored under a string form is kept
RECURSIVE sanitise_first_wins(_, _, _, _)
sanitise_first_wins(mapping, i, clean, log) ==
    IF i > Len(mapping) THEN [ret |-> clean, out |-> <<>>]
    ELSE LET key == StrKey(mapping[i].k.s)
             stored == IF HasKey(clean, key) THEN clean
                       ELSE SetItem(clean, key, mapping[i].v)
             rest == sanitise_first_wins(mapping, i + 1, stored, log)
         IN  [ret |-> rest.ret,
              out |-> (IF mapping[i].k.isstr THEN <<>>
                       ELSE <<Warning(log, "non-string key", <<key.s>>)>>) \o rest.out]

sanitise_mapping_first_wins(mapping, log) == sanitise_first_wins(mapping, 1, <<>>, log)

sanitise_mapping(mapping, log) == sanitise_from(mapping, 1, <<>>, log)

\* ----------------------------------------------------- check_dataset_attrs
RECURSIVE missing_global_attrs(_, _, _)
missing_global_attrs(attrs, i, log) ==
    IF i > Len(CDM_ATTRS) THEN <<>>
    ELSE (IF ~HasKey(attrs, StrKey(CDM_ATTRS[i]))
          THEN <<Warning(log, "missing recommended global attribute", <<CDM_ATTRS[i]>>)>>
          ELSE <<>>)
         \o missing_global_attrs(attrs, i + 1, log)

\* mutant: CF-1.6 is no longer an accepted convention
check_dataset_attrs_without_cf16(dataset_attrs, log) ==
    LET clean == sanitise_mapping(dataset_attrs, log)
        attrs == clean.ret
        conventions == Get(attrs, StrKey("Conventions"))
    IN  clean.out
        \o (IF conventions = None
            THEN <<Warning(log, "missing required 'Conventions' global attribute", <<>>)>>
            ELSE IF conventions \notin {"CF-1.8", "CF-1.7"}
            THEN <<Warning(log, "invalid 'Conventions' value", <<conventions>>)>>
            ELSE <<>>)
        \o missing_global_attrs(attrs, 1, log)

check_dataset_attrs(dataset_attrs, log) ==
    LET clean == sanitise_mapping(dataset_attrs, log)
        attrs == clean.ret
        conventions == Get(attrs, StrKey("Conventions"))
    IN  clean.out
        \o (IF conventions = None
            THEN <<Warning(log, "missing required 'Conventions' global attribute", <<>>)>>
            ELSE IF conventions \notin CF_CONVENTIONS
            THEN <<Warning(log, "invalid 'Conventions' value", <<conventions>>)>>
            ELSE <<>>)
        \o missing_global_attrs(attrs, 1, log)

\* --------------------------------------------------------- guess_definition
\* a definition is [standard_name, long_name, units, stored_direction], a
\* field being None when the dict has no such key; {} is EmptyDefinition
DefinitionFields == {"standard_name", "long_name", "units", "stored_direction"}

EmptyDefinition == [f \in DefinitionFields |-> None]

RECURSIVE matching_from(_, _, _)
matching_from(definitions, i, standard_name) ==
    IF i > Len(definitions) THEN <<>>
    ELSE (IF definitions[i].v.standard_name = standard_name
          THEN <<definitions[i].k>>
          ELSE <<>>)
         \o matching_from(definitions, i + 1, standard_name)

\* mutant: the first of several matching definitions is taken
guess_definition_first_match(attrs, definitions, log) ==
    LET standard_name == Get(attrs, StrKey("standard_name"))
    IN  IF standard_name # None
        THEN LET log1 == Bind(log, "standard_name", standard_name)
                 matching_variables == matching_from(definitions, 1, standard_name)
             IN  IF Len(matching_variables) = 0
                 THEN [ret |-> EmptyDefinition,
                       out |-> <<Warning(log1, "'standard_name' attribute not valid", <<>>)>>]
                 ELSE [ret |-> Get(definitions, matching_variables[1]),
                       out |-> <<Warning(log1, "wrong name for variable",
                                         <<matching_variables[1]>>)>>]
        ELSE [ret |-> EmptyDefinition,
              out |-> <<Warning(log, "missing recommended attribute 'standard_name'", <<>>)>>]

guess_definition(attrs, definitions, log) ==
    LET standard_name == Get(attrs, StrKey("standard_name"))
    IN  IF standard_name # None
        THEN LET log1 == Bind(log, "standard_name", standard_name)
                 matching_variables == matching_from(definitions, 1, standard_name)
             IN  IF Len(matching_variables) = 0
                 THEN [ret |-> EmptyDefinition,
                       out |-> <<Warning(log1, "'standard_name' attribute not valid", <<>>)>>]
                 ELSE IF Len(matching_variables) = 1
                 THEN LET expected_name == matching_variables[1]
                      IN  [ret |-> Get(definitions, expected_name),
                           out |-> <<Warning(log1, "wrong name for variable",
                                             <<expected_name>>)>>]
                 ELSE [ret |-> EmptyDefinition,
                       out |-> <<Warning(log1, "variables with matching 'standard_name':",
                                         matching_variables)>>]
        ELSE [ret |-> EmptyDefinition,
              out |-> <<Warning(log, "missing recommended attribute 'standard_name'", <<>>)>>]

\* ------------------------------------------------------------------ cfunits
\* cfunits.Units: a unit string is valid when udunits can parse it, two units
\* are equivalent when one converts to the other, and equal when the
\* conversion is the identity
UnitsTable ==
    [u \in {"K", "kelvin", "Celsius", "m", "Pa", "hPa", "1", "*"} |->
        CASE u = "K"       -> [isvalid |-> TRUE, dimension |-> "temperature", scale |-> "K"]
          [] u = "kelvin"  -> [isvalid |-> TRUE, dimension |-> "temperature", scale |-> "K"]
          [] u = "Celsius" -> [isvalid |-> TRUE, dimension |-> "temperature", scale |-> "degC"]
          [] u = "m"       -> [isvalid |-> TRUE, dimension |-> "length", scale |-> "m"]
          [] u = "Pa"      -> [isvalid |-> TRUE, dimension |-> "pressure", scale |-> "Pa"]
          [] u = "hPa"     -> [isvalid |-> TRUE, dimension |-> "pressure", scale |-> "hPa"]
          [] u = "1"       -> [isvalid |-> TRUE, dimension |-> "none", scale |-> "1"]
          [] u = "*"       -> [isvalid |-> FALSE, dimension |-> "invalid", scale |-> "invalid"]]

Units_isvalid(units) == UnitsTable[units].isvalid

Units_equivalent(units, other) ==
    /\ UnitsTable[units].isvalid
    /\ UnitsTable[other].isvalid
    /\ UnitsTable[units].dimension = UnitsTable[other].dimension

Units_equals(units, other) ==
    /\ Units_equivalent(units, other)
    /\ UnitsTable[units].scale = UnitsTable[other].scale

\* ----------------------------------------------------- check_variable_attrs
\* mutant: equality is tested before equivalence
check_units_equal_first(attrs, definition, dtype, log) ==
    IF ~HasKey(attrs, StrKey("units"))
    THEN IF dtype \notin TIME_DTYPE_NAMES
         THEN <<Warning(log, "missing recommended attribute 'units'", <<>>)>>
         ELSE <<>>
    ELSE LET units == Get(attrs, StrKey("units"))
             expected_units == definition.units
         IN  IF expected_units # None
             THEN LET log1 == Bind(log, "expected_units", expected_units)
                      log2 == Bind(log1, "units", units)
                  IN  IF ~Units_isvalid(units)
                      THEN <<Warning(log1, "'units' attribute not valid", <<units>>)>>
                      ELSE IF ~Units_equals(units, expected_units)
                      THEN <<Warning(log2, "'units' attribute not equal to the expected", <<>>)>>
                      ELSE IF ~Units_equivalent(units, expected_units)
                      THEN <<Warning(log2, "'units' attribute not equivalent to the expected", <<>>)>>
                      ELSE <<>>
             ELSE <<>>

\* mutant: missing units are reported whatever the dtype
check_units_any_dtype(attrs, definition, dtype, log) ==
    IF ~HasKey(attrs, StrKey("units"))
    THEN <<Warning(log, "missing recommended attribute 'units'", <<>>)>>
    ELSE LET units == Get(attrs, StrKey("units"))
             expected_units == definition.units
         IN  IF expected_units # None
             THEN LET log1 == Bind(log, "expected_units", expected_units)
                      log2 == Bind(log1, "units", units)
                  IN  IF ~Units_isvalid(units)
                      THEN <<Warning(log1, "'units' attribute not valid", <<units>>)>>
                      ELSE IF ~Units_equivalent(units, expected_units)
                      THEN <<Warning(log2, "'units' attribute not equivalent to the expected", <<>>)>>
                      ELSE IF ~Units_equals(units, expected_units)
                      THEN <<Warning(log2, "'units' attribute not equal to the expected", <<>>)>>
                      ELSE <<>>
             ELSE <<>>

check_units(attrs, definition, dtype, log) ==
    IF ~HasKey(attrs, StrKey("units"))
    THEN IF dtype \notin TIME_DTYPE_NAMES
         THEN <<Warning(log, "missing recommended attribute 'units'", <<>>)>>
         ELSE <<>>
    ELSE LET units == Get(attrs, StrKey("units"))
             expected_units == definition.units
         IN  IF expected_units # None
             THEN LET log1 == Bind(log, "expected_units", expected_units)
                      log2 == Bind(log1, "units", units)
                  IN  IF ~Units_isvalid(units)
                      THEN <<Warning(log1, "'units' attribute not valid", <<units>>)>>
                      ELSE IF ~Units_equivalent(units, expected_units)
                      THEN <<Warning(log2, "'units' attribute not equivalent to the expected", <<>>)>>
                      ELSE IF ~Units_equals(units, expected_units)
                      THEN <<Warning(log2, "'units' attribute not equal to the expected", <<>>)>>
                      ELSE <<>>
             ELSE <<>>

\* the logger after the units branch: its bindings stay for the rest of the call
log_after_units(attrs, definition, log) ==
    IF HasKey(attrs, StrKey("units")) /\ definition.units # None
    THEN LET log1 == Bind(log, "expected_units", definition.units)
         IN  IF Units_isvalid(Get(attrs, StrKey("units")))
             THEN Bind(log1, "units", Get(attrs, StrKey("units")))
             ELSE log1
    ELSE log

check_variable_attrs(variable_attrs, definition, dtype, log) ==
    LET clean == sanitise_mapping(variable_attrs, log)
        attrs == clean.ret
        log1 == log_after_units(attrs, definition, log)
        standard_name == Get(attrs, StrKey("standard_name"))
        expected_standard_name == definition.standard_name
        log2 == Bind(log1, "expected_standard_name", expected_standard_name)
    IN  clean.out
        \o (IF ~HasKey(attrs, StrKey("long_name"))
            THEN <<Warning(log, "missing recommended attribute 'long_name'", <<>>)>>
            ELSE <<>>)
        \o check_units(attrs, definition, dtype, log)
        \o (IF expected_standard_name # None
            THEN IF standard_name = None
                 THEN <<Warning(log2, "missing expected attribute 'standard_name'", <<>>)>>
                 ELSE IF standard_name # expected_standard_name
                 THEN <<Warning(log2, "'standard_name' attribute not valid", <<standard_name>>)>>
                 ELSE <<>>
            ELSE <<>>)

\* --------------------------------------------------------------- the schema
\* cdm.json, as the tests use it: "tas" and "ta" share a standard_name, and
\* "plev" is stored decreasing
AirTemperature ==
    [standard_name |-> "air_temperature", long_name |-> "air temperature",
     units |-> "K", stored_direction |-> None]

CDM_DATA_VARS ==
    <<[k |-> "tas", v |-> AirTemperature],
      [k |-> "ta", v |-> AirTemperature],
      [k |-> "psl", v |-> [standard_name |-> "air_pressure_at_sea_level", long_name |-> None,
                           units |-> "Pa", stored_direction |-> None]]>>

CDM_COORDS ==
    <<[k |-> "plev", v |-> [standard_name |-> "air_pressure", long_name |-> "pressure",
                            units |-> "Pa", stored_direction |-> "decreasing"]],
      [k |-> "time", v |-> [standard_name |-> "time", long_name |-> None,
                            units |-> None, stored_direction |-> None]],
      [k |-> "height", v |-> [standard_name |-> "height", long_name |-> None,
                              units |-> "m", stored_direction |-> "increasing"]]>>

\* ------------------------------------------------------ check_variable_data
\* an xarray.DataArray is [attrs, dims, coords, dtype, values]: coords the
\* names of its coordinates, values its values when it has one dimension
RECURSIVE check_dims_from(_, _, _)
check_dims_from(data_var, i, log) ==
    IF i > Len(data_var.dims) THEN <<>>
    ELSE LET dim == data_var.dims[i]
         IN  (IF ~HasKey(CDM_COORDS, dim)
              THEN <<Warning(log, "unknown dimension", <<dim>>)>>
              ELSE IF dim \notin data_var.coords
              THEN <<Error(log, "dimension with no associated coordinate", <<dim>>)>>
              ELSE <<>>)
             \o check_dims_from(data_var, i + 1, log)

\* mutant: the coordinate is looked for before the schema is consulted
RECURSIVE check_dims_coords_first(_, _, _)
check_dims_coords_first(data_var, i, log) ==
    IF i > Len(data_var.dims) THEN <<>>
    ELSE LET dim == data_var.dims[i]
         IN  (IF dim \notin data_var.coords
              THEN <<Error(log, "dimension with no associated coordinate", <<dim>>)>>
              ELSE IF ~HasKey(CDM_COORDS, dim)
              THEN <<Warning(log, "unknown dimension", <<dim>>)>>
              ELSE <<>>)
             \o check_dims_coords_first(data_var, i + 1, log)

check_variable_data_coords_first(data_var, log) == check_dims_coords_first(data_var, 1, log)

check_variable_data(data_var, log) == check_dims_from(data_var, 1, log)

\* ---------------------------------------------------- check_coordinate_data
\* coord.diff(coord_name).values
diff(values) ==
    IF Len(values) < 2 THEN <<>>
    ELSE [i \in 1 .. Len(values) - 1 |-> values[i + 1] - values[i]]

\* mutant: equal adjacent values are accepted
check_coordinate_data_non_strict(coord_name, coord, increasing, log) ==
    LET diffs == diff(coord.values)
        zero == 0
    IN  IF increasing
        THEN IF \E i \in DOMAIN diffs : diffs[i] < zero
             THEN <<Error(log, "coordinate stored direction is not 'increasing'", <<>>)>>
             ELSE <<>>
        ELSE IF \E i \in DOMAIN diffs : diffs[i] > zero
             THEN <<Error(log, "coordinate stored direction is not 'decreasing'", <<>>)>>
             ELSE <<>>

check_coordinate_data(coord_name, coord, increasing, log) ==
    LET diffs == diff(coord.values)
        \* np.timedelta64(0, "ns") for the time dtypes, whose values are counts of ns
        zero == 0
    IN  IF increasing
        THEN IF \E i \in DOMAIN diffs : diffs[i] <= zero
             THEN <<Error(log, "coordinate stored direction is not 'increasing'", <<>>)>>
             ELSE <<>>
        ELSE IF \E i \in DOMAIN diffs : diffs[i] >= zero
             THEN <<Error(log, "coordinate stored direction is not 'decreasing'", <<>>)>>
             ELSE <<>>

\* ----------------------------------------------------------- check_variable
resolve_definition(data_var_name, attrs, definitions, log) ==
    IF HasKey(definitions, data_var_name)
    THEN [ret |-> Get(definitions, data_var_name), out |-> <<>>]
    ELSE LET guess == guess_definition(attrs, definitions, log)
         IN  [ret |-> guess.ret,
              out |-> <<Warning(log, "unexpected name for variable", <<>>)>> \o guess.out]

\* mutant: the stored_direction of the definition is ignored
stored_always_increasing(definition) == TRUE

stored_increasing(definition) ==
    (IF definition.stored_direction = None THEN "increasing"
     ELSE definition.stored_direction) = "increasing"

\* mutant: the data are checked before the attributes
check_variable_data_first(data_var_name, data_var, definitions, log) ==
    LET clean == sanitise_mapping(data_var.attrs, log)
        resolved == resolve_definition(data_var_name, clean.ret, definitions, log)
        definition == resolved.ret
    IN  clean.out
        \o resolved.out
        \o check_variable_data(data_var, log)
        \o check_variable_attrs(data_var.attrs, definition, data_var.dtype, log)
        \o (IF data_var.dims = <<data_var_name>>
            THEN check_coordinate_data(data_var_name, data_var,
                                       stored_increasing(definition), log)
            ELSE <<>>)

check_variable(data_var_name, data_var, definitions, log) ==
    LET clean == sanitise_mapping(data_var.attrs, log)
        resolved == resolve_definition(data_var_name, clean.ret, definitions, log)
        definition == resolved.ret
    IN  clean.out
        \o resolved.out
        \o check_variable_attrs(data_var.attrs, definition, data_var.dtype, log)
        \o check_variable_data(data_var, log)
        \o (IF data_var.dims = <<data_var_name>>
            THEN check_coordinate_data(data_var_name, data_var,
                                       stored_increasing(definition), log)
            ELSE <<>>)

\* -------------------------------------------------- check_dataset_data_vars
RECURSIVE partition_from(_, _, _, _)
partition_from(data_vars, i, payload_vars, ancillary_vars) ==
    IF i > Len(data_vars) THEN <<payload_vars, ancillary_vars>>
    ELSE LET name == data_vars[i].k
             var == data_vars[i].v
         IN  IF name.s \in CDM_ANCILLARY_VARS
             THEN partition_from(data_vars, i + 1, payload_vars,
                                 SetItem(ancillary_vars, name, var))
             ELSE partition_from(data_vars, i + 1, SetItem(payload_vars, name, var),
                                 ancillary_vars)

\* mutant: the scan stops after the first entity that has an error
RECURSIVE check_items_until_error(_, _, _, _, _)
check_items_until_error(items, i, bind_key, definitions, log) ==
    IF i > Len(items) THEN <<>>
    ELSE LET log1 == Bind(log, bind_key, items[i].k.s)
             out == check_variable(items[i].k.s, items[i].v, definitions, log1)
         IN  IF \E n \in DOMAIN out : out[n].level = "error"
             THEN out
             ELSE out \o check_items_until_error(items, i + 1, bind_key, definitions, log1)

RECURSIVE check_items_from(_, _, _, _, _)
check_items_from(items, i, bind_key, definitions, log) ==
    IF i > Len(items) THEN <<>>
    ELSE LET log1 == Bind(log, bind_key, items[i].k.s)
         IN  check_variable(items[i].k.s, items[i].v, definitions, log1)
             \o check_items_from(items, i + 1, bind_key, definitions, log1)

\* mutant: the ancillary variables are counted too
check_dataset_data_vars_counting_all(dataset_data_vars, log) ==
    LET clean == sanitise_mapping(dataset_data_vars, log)
        parts == partition_from(clean.ret, 1, <<>>, <<>>)
        payload_vars == parts[1]
        ancillary_vars == parts[2]
    IN  [ret |-> <<payload_vars, ancillary_vars>>,
         out |-> clean.out
                 \o (IF Len(clean.ret) > 1
                     THEN <<Error(log, "file must have at most one non-auxiliary variable",
                                  [i \in DOMAIN payload_vars |-> payload_vars[i].k.s])>>
                     ELSE <<>>)
                 \o check_items_from(payload_vars, 1, "data_var_name", CDM_DATA_VARS, log)]

check_dataset_data_vars(dataset_data_vars, log) ==
    LET clean == sanitise_mapping(dataset_data_vars, log)
        parts == partition_from(clean.ret, 1, <<>>, <<>>)
        payload_vars == parts[1]
        ancillary_vars == parts[2]
    IN  [ret |-> <<payload_vars, ancillary_vars>>,
         out |-> clean.out
                 \o (IF Len(payload_vars) > 1
                     THEN <<Error(log, "file must have at most one non-auxiliary variable",
                                  [i \in DOMAIN payload_vars |-> payload_vars[i].k.s])>>
                     ELSE <<>>)
                 \o check_items_from(payload_vars, 1, "data_var_name", CDM_DATA_VARS, log)]

\* ----------------------------------------------------- check_dataset_coords
check_dataset_coords(dataset_coords, log) ==
    LET clean == sanitise_mapping(dataset_coords, log)
    IN  clean.out \o check_items_from(clean.ret, 1, "coord_name", CDM_COORDS, log)

\* ----------------------------------------------------------------- inputs
\* keys and values of the mappings given to sanitise_mapping
SampleKeys == {StrKey("key"), StrKey("None"), ObjKey("None"), ObjKey("1")}
SampleValues == {1, 2}

\* global attributes: any subset of the recommended names, a Conventions
\* value (or none), and possibly a non-string key, before or after them
RECURSIVE present_attrs(_, _)
present_attrs(present, i) ==
    IF i > Len(CDM_ATTRS) THEN <<>>
    ELSE (IF CDM_ATTRS[i] \in present
          THEN <<[k |-> StrKey(CDM_ATTRS[i]), v |-> "text"]>>
          ELSE <<>>)
         \o present_attrs(present, i + 1)

ConventionsValues == CF_CONVENTIONS \cup {"0.1", None}

DatasetAttrs ==
    {pre \o conv \o present_attrs(present, 1) \o post :
        pre \in {<<>>, <<[k |-> ObjKey("None"), v |-> "text"]>>},
        conv \in {<<>>} \cup {<<[k |-> StrKey("Conventions"), v |-> c]>> : c \in ConventionsValues},
        present \in SUBSET Range(CDM_ATTRS),
        post \in {<<>>, <<[k |-> ObjKey("1"), v |-> "text"]>>}}

\* clean attributes given to guess_definition, and the definitions it scans
GuessAttrs ==
    {<<>>} \cup {<<[k |-> StrKey("standard_name"), v |-> n]>> :
                    n \in {None, "air_temperature", "time", "dummy"}}

SampleDefinitions ==
    {AirTemperature,
     [EmptyDefinition EXCEPT !.standard_name = "time"],
     [EmptyDefinition EXCEPT !.units = "K"]}

DefinitionDicts == Dicts({"tas", "ta", "time", "plev"}, SampleDefinitions, MaxDefs)

\* attributes of a variable or coordinate: an optional non-string key, then
\* long_name, units and standard_name, each present or not
Item(name, value) == IF value = "absent" THEN <<>> ELSE <<[k |-> StrKey(name), v |-> value]>>

AttrsOf(pre, long_name, units, standard_name) ==
    pre \o Item("long_name", long_name) \o Item("units", units)
        \o Item("standard_name", standard_name)

VariableAttrs ==
    {AttrsOf(pre, long_name, units, standard_name) :
        pre \in {<<>>, <<[k |-> ObjKey("None"), v |-> "text"]>>},
        long_name \in {"absent", "text"},
        units \in {"absent", "K", "kelvin", "Celsius", "m", "*"},
        standard_name \in {"absent", None, "air_temperature", "dummy"}}

CheckedDefinitions ==
    {EmptyDefinition, [AirTemperature EXCEPT !.units = None]}
        \cup {CDM_DATA_VARS[i].v : i \in DOMAIN CDM_DATA_VARS}
        \cup {CDM_COORDS[i].v : i \in DOMAIN CDM_COORDS}

DtypeNames == {None, "float32", "datetime64[ns]", "timedelta64[ns]"}

\* values of a one-dimensional coordinate
CoordinateValues == SeqsUpTo(0 .. MaxVal, MaxLen)

DataArray(attrs, dims, coords, dtype, values) ==
    [attrs |-> attrs, dims |-> dims, coords |-> coords, dtype |-> dtype, values |-> values]

\* the variables and coordinates given to check_variable
EntityAttrs ==
    {AttrsOf(pre, long_name, units, standard_name) :
        pre \in {<<>>, <<[k |-> ObjKey("None"), v |-> "text"]>>},
        long_name \in {"absent", "text"},
        units \in {"absent", "K", "Pa", "hPa"},
        standard_name \in {"absent", "air_temperature", "air_pressure"}}

EntityValues == {<<0, 1>>, <<1, 0>>, <<1, 1>>, <<1>>}

Entities ==
    {DataArray(attrs, dims, coords, dtype, <<>>) :
        attrs \in EntityAttrs, dims \in {<<>>, <<"time", "lon1">>, <<"time", "plev">>},
        coords \in {{}, {"plev", "time"}}, dtype \in {"float32"}}
    \cup
    {DataArray(attrs, <<dim>>, {dim}, dtype, values) :
        attrs \in EntityAttrs, dim \in {"plev", "dummy"},
        dtype \in {"float32", "datetime64[ns]"}, values \in EntityValues}

\* the variables and coordinates of a dataset
Tas ==
    DataArray(AttrsOf(<<>>, "text", "K", "air_temperature"), <<"time", "plev">>,
              {"time", "plev"}, "float32", <<>>)

Bare == DataArray(<<>>, <<"lon1">>, {}, "float32", <<>>)

Crs == DataArray(<<[k |-> StrKey("grid_mapping_name"), v |-> "text"]>>, <<>>, {}, "int64", <<>>)

Plev ==
    DataArray(AttrsOf(<<>>, "text", "Pa", "air_pressure"), <<"plev">>, {"plev"},
              "float32", <<1, 0>>)

PlevNoUnits ==
    DataArray(AttrsOf(<<>>, "text", "absent", "air_pressure"), <<"plev">>, {"plev"},
              "float32", <<0, 1>>)

Time ==
    DataArray(AttrsOf(<<>>, "text", "absent", "time"), <<"time">>, {"time"},
              "datetime64[ns]", <<0, 1>>)

DataVarNames == {StrKey("tas"), StrKey("ta"), StrKey("crs"), StrKey("1"), ObjKey("1")}

DataVarDicts == Dicts(DataVarNames, {Tas, Bare, Crs}, MaxVars)

\* the dimensions and coordinates of the arrays given to check_variable_data
DimNames == {"plev", "time", "lon1"}

DimTuples == {dims \in SeqsUpTo(DimNames, MaxDims) :
                 \A i, j \in DOMAIN dims : dims[i] = dims[j] => i = j}

\* ---------------------------------------------------------------- actions
Init ==
    /\ call = "none"
    /\ args = <<>>
    /\ entries = <<>>
    /\ ret = None
    /\ pc = "idle"

SanitiseMapping ==
    /\ pc = "idle"
    /\ \E mapping \in Dicts(SampleKeys, SampleValues, MaxItems) :
        LET r == sanitise_mapping(mapping, LOGGER)
        IN  /\ call' = "sanitise_mapping"
            /\ args' = [mapping |-> mapping]
            /\ entries' = r.out
            /\ ret' = r.ret
            /\ pc' = "done"

CheckDatasetAttrs ==
    /\ pc = "idle"
    /\ \E dataset_attrs \in DatasetAttrs :
        /\ call' = "check_dataset_attrs"
        /\ args' = [dataset_attrs |-> dataset_attrs]
        /\ entries' = check_dataset_attrs(dataset_attrs, LOGGER)
        /\ ret' = None
        /\ pc' = "done"

GuessDefinition ==
    /\ pc = "idle"
    /\ \E attrs \in GuessAttrs, definitions \in DefinitionDicts :
        LET r == guess_definition(attrs, definitions, LOGGER)
        IN  /\ call' = "guess_definition"
            /\ args' = [attrs |-> attrs, definitions |-> definitions]
            /\ entries' = r.out
            /\ ret' = r.ret
            /\ pc' = "done"

CheckVariableAttrs ==
    /\ pc = "idle"
    /\ \E variable_attrs \in VariableAttrs, definition \in CheckedDefinitions,
       dtype \in DtypeNames :
        /\ call' = "check_variable_attrs"
        /\ args' = [variable_attrs |-> variable_attrs, definition |-> definition,
                    dtype |-> dtype]
        /\ entries' = check_variable_attrs(variable_attrs, definition, dtype, LOGGER)
        /\ ret' = None
        /\ pc' = "done"

CheckCoordinateData ==
    /\ pc = "idle"
    /\ \E values \in CoordinateValues, dtype \in {"float32", "datetime64[ns]"},
       increasing \in BOOLEAN :
        LET coord == DataArray(<<>>, <<"plev">>, {"plev"}, dtype, values)
        IN  /\ call' = "check_coordinate_data"
            /\ args' = [coord_name |-> "plev", coord |-> coord, increasing |-> increasing]
            /\ entries' = check_coordinate_data("plev", coord, increasing, LOGGER)
            /\ ret' = None
            /\ pc' = "done"

CheckVariableData ==
    /\ pc = "idle"
    /\ \E dims \in DimTuples, coords \in SUBSET DimNames :
        LET data_var == DataArray(<<>>, dims, coords, "float32", <<>>)
        IN  /\ call' = "check_variable_data"
            /\ args' = [data_var |-> data_var]
            /\ entries' = check_variable_data(data_var, LOGGER)
            /\ ret' = None
            /\ pc' = "done"

\* the height axis, whose definition says 'increasing' in so many words
HeightEntities ==
    {DataArray(AttrsOf(<<>>, "text", "m", "height"), <<"height">>, {"height"}, "float32",
               values) : values \in EntityValues}

NamedEntities ==
    ({"tas", "dummy", "plev"} \X Entities) \cup ({"height"} \X HeightEntities)

CheckVariable ==
    /\ pc = "idle"
    /\ \E named \in NamedEntities, definitions \in {CDM_DATA_VARS, CDM_COORDS} :
        LET data_var_name == named[1]
            data_var == named[2]
        IN  /\ call' = "check_variable"
            /\ args' = [data_var_name |-> data_var_name, data_var |-> data_var,
                        definitions |-> definitions]
            /\ entries' = check_variable(data_var_name, data_var, definitions, LOGGER)
            /\ ret' = None
            /\ pc' = "done"

CheckDatasetDataVars ==
    /\ pc = "idle"
    /\ \E dataset_data_vars \in DataVarDicts :
        LET r == check_dataset_data_vars(dataset_data_vars, LOGGER)
        IN  /\ call' = "check_dataset_data_vars"
            /\ args' = [dataset_data_vars |-> dataset_data_vars]
            /\ entries' = r.out
            /\ ret' = r.ret
            /\ pc' = "done"

Next ==
    \/ SanitiseMapping
    \/ CheckDatasetAttrs
    \/ GuessDefinition
    \/ CheckVariableAttrs
    \/ CheckCoordinateData
    \/ CheckVariableData
    \/ CheckVariable
    \/ CheckDatasetDataVars

Spec == Init /\ [][Next]_vars

\* ------------------------------------------------------------ check_dataset
\* mutant: the data variables are checked before the coordinates
check_dataset_calls_data_vars_first ==
    <<"check_dataset_attrs", "check_dataset_data_vars", "check_dataset_coords">>

\* the calls of check_dataset, in the order it makes them
check_dataset_calls ==
    <<"check_dataset_attrs", "check_dataset_coords", "check_dataset_data_vars">>

\* the call that follows, or "done" after the last
following(stage) ==
    LET i == CHOOSE j \in DOMAIN check_dataset_calls : check_dataset_calls[j] = stage
    IN  IF i = Len(check_dataset_calls) THEN "done" ELSE check_dataset_calls[i + 1]

DatasetAttrsSample ==
    {<<>>,
     <<[k |-> StrKey("Conventions"), v |-> "CF-1.8"]>> \o present_attrs(Range(CDM_ATTRS), 1)}

CoordDicts ==
    Dicts({StrKey("plev"), StrKey("time"), StrKey("lon1")}, {PlevNoUnits, Time}, MaxEntities)

PayloadDicts ==
    Dicts({StrKey("tas"), StrKey("dummy"), StrKey("crs")}, {Tas, Bare}, MaxEntities)

Datasets == [attrs : DatasetAttrsSample, coords : CoordDicts, data_vars : PayloadDicts]

CheckDataset ==
    /\ pc = "idle"
    /\ \E dataset \in Datasets :
        /\ call' = "check_dataset"
        /\ args' = [dataset |-> dataset]
        /\ entries' = <<>>
        /\ ret' = None
        /\ pc' = check_dataset_calls[1]

DatasetAttrsStep ==
    /\ pc = "check_dataset_attrs"
    /\ entries' = entries \o check_dataset_attrs(args.dataset.attrs, LOGGER)
    /\ pc' = following(pc)
    /\ UNCHANGED <<call, args, ret>>

DatasetCoordsStep ==
    /\ pc = "check_dataset_coords"
    /\ entries' = entries \o check_dataset_coords(args.dataset.coords, LOGGER)
    /\ pc' = following(pc)
    /\ UNCHANGED <<call, args, ret>>

DatasetDataVarsStep ==
    /\ pc = "check_dataset_data_vars"
    /\ entries' = entries \o check_dataset_data_vars(args.dataset.data_vars, LOGGER).out
    /\ pc' = following(pc)
    /\ UNCHANGED <<call, args, ret>>

NextDataset ==
    \/ CheckDataset
    \/ DatasetAttrsStep
    \/ DatasetCoordsStep
    \/ DatasetDataVarsStep

SpecDataset == Init /\ [][NextDataset]_vars

\* check_dataset is one sequential call of three calls that each return (a
\* loop over a finite mapping): control goes on to the call that follows
Advance == pc \notin {"idle", "done"} /\ pc' = following(pc)

SpecDatasetFair == SpecDataset /\ WF_pc(Advance)

\* -------------------------------------------------------------- cmor_to_cdm
\* (src/cdscdm_tools/cmor_to_cdm.py)  A CMOR table is [axis_entry,
\* variable_entry], each a dict from an identifier to an entry; an entry is
\* [out_name, standard_name, long_name, units, stored_direction], a field
\* being None when the entry has no such key and "" when it is empty.
EntryFields == {"out_name", "standard_name", "long_name", "units", "stored_direction"}

\* the out_names of the model in the order of Python's string comparison
OutNames == <<"leadtime", "plev", "ta", "time">>

Rank(out_name) == CHOOSE i \in DOMAIN OutNames : OutNames[i] = out_name

\* "since" in units
contains_since(units) == units \in {"days since 1970-1-1", "seconds since 1970-1-1"}

\* bool(v) of a field value
truthy(v) == v # None /\ v # ""

\* mutant: the entries are taken in their iteration order
unsorted(items) == items

\* sorted(items, key=out_name): stable, equal out_names keep their order
RECURSIVE sorted_by_out_name(_)
sorted_by_out_name(items) ==
    IF items = <<>> THEN <<>>
    ELSE LET front == sorted_by_out_name(SubSeq(items, 1, Len(items) - 1))
             x == items[Len(items)]
             n == Cardinality({i \in DOMAIN front :
                                  Rank(front[i].v.out_name) <= Rank(x.v.out_name)})
         IN  SubSeq(front, 1, n) \o <<x>> \o SubSeq(front, n + 1, Len(front))

\* mutant: the units of an axis are kept whatever they are
cdm_coord_of_keeping_since(coord) ==
    [standard_name |-> IF truthy(coord.standard_name) THEN coord.standard_name ELSE None,
     long_name |-> IF truthy(coord.long_name) THEN coord.long_name ELSE None,
     units |-> IF truthy(coord.units) THEN coord.units ELSE None,
     stored_direction |->
        IF (IF coord.stored_direction = None THEN "" ELSE coord.stored_direction)
               \notin {"increasing", ""}
        THEN coord.stored_direction ELSE None]

\* the definition compiled from an axis entry
cdm_coord_of(coord) ==
    [standard_name |-> IF truthy(coord.standard_name) THEN coord.standard_name ELSE None,
     long_name |-> IF truthy(coord.long_name) THEN coord.long_name ELSE None,
     units |->
        IF truthy(IF coord.units = None THEN "" ELSE coord.units)
           /\ ~contains_since(coord.units)
        THEN coord.units ELSE None,
     stored_direction |->
        IF (IF coord.stored_direction = None THEN "" ELSE coord.stored_direction)
               \notin {"increasing", ""}
        THEN coord.stored_direction ELSE None]

\* the definition compiled from a variable entry
cdm_data_var_of(coord) ==
    [standard_name |-> IF truthy(coord.standard_name) THEN coord.standard_name ELSE None,
     long_name |-> IF truthy(coord.long_name) THEN coord.long_name ELSE None,
     units |-> IF truthy(coord.units) THEN coord.units ELSE None,
     stored_direction |-> None]

\* mutant: a definition compiled earlier is completed, not replaced
RECURSIVE compile_merging(_, _, _)
compile_merging(entries_sorted, i, cdm_coords) ==
    IF i > Len(entries_sorted) THEN cdm_coords
    ELSE LET coord == entries_sorted[i].v
             new == cdm_coord_of(coord)
             old == IF HasKey(cdm_coords, coord.out_name)
                    THEN Get(cdm_coords, coord.out_name) ELSE EmptyDefinition
             merged == [f \in DefinitionFields |-> IF new[f] # None THEN new[f] ELSE old[f]]
         IN  compile_merging(entries_sorted, i + 1,
                             SetItem(cdm_coords, coord.out_name, merged))

compile_axes_merging(axis_entry, cdm_coords) ==
    compile_merging(sorted_by_out_name(axis_entry), 1, cdm_coords)

RECURSIVE compile_coords_from(_, _, _)
compile_coords_from(entries_sorted, i, cdm_coords) ==
    IF i > Len(entries_sorted) THEN cdm_coords
    ELSE LET coord == entries_sorted[i].v
         IN  compile_coords_from(entries_sorted, i + 1,
                                 SetItem(cdm_coords, coord.out_name, cdm_coord_of(coord)))

RECURSIVE compile_data_vars_from(_, _, _)
compile_data_vars_from(entries_sorted, i, cdm_data_vars) ==
    IF i > Len(entries_sorted) THEN cdm_data_vars
    ELSE LET coord == entries_sorted[i].v
         IN  compile_data_vars_from(entries_sorted, i + 1,
                                    SetItem(cdm_data_vars, coord.out_name,
                                            cdm_data_var_of(coord)))

\* the axis loop of one table
compile_axes(axis_entry, cdm_coords) ==
    compile_coords_from(sorted_by_out_name(axis_entry), 1, cdm_coords)

\* the variable loop of one table
compile_variables(variable_entry, cdm_data_vars) ==
    compile_data_vars_from(sorted_by_out_name(variable_entry), 1, cdm_data_vars)

RECURSIVE cmor_to_cdm_from(_, _, _, _)
cmor_to_cdm_from(cmor_objects, i, cdm_coords, cdm_data_vars) ==
    IF i > Len(cmor_objects)
    THEN [attrs |-> CDM_ATTRS, coords |-> cdm_coords, data_vars |-> cdm_data_vars]
    ELSE cmor_to_cdm_from(cmor_objects, i + 1,
                          compile_axes(cmor_objects[i].axis_entry, cdm_coords),
                          compile_variables(cmor_objects[i].variable_entry, cdm_data_vars))

cmor_to_cdm(cmor_objects) == cmor_to_cdm_from(cmor_objects, 1, <<>>, <<>>)

\* json.dumps(..., sort_keys=True): the items of a compiled mapping by key
sort_keys(mapping) ==
    LET ranks == {Rank(mapping[i].k) : i \in DOMAIN mapping}
        nth(n) == CHOOSE i \in DOMAIN mapping :
                      Cardinality({r \in ranks : r < Rank(mapping[i].k)}) = n - 1
    IN  [n \in 1 .. Len(mapping) |-> mapping[nth(n)]]

dumps(cdm) ==
    <<<<"attrs", cdm.attrs>>, <<"coords", sort_keys(cdm.coords)>>,
      <<"data_vars", sort_keys(cdm.data_vars)>>>>

\* ------------------------------------------------- cmor_to_cdm: the calls
Entry(out_name, standard_name, long_name, units, stored_direction) ==
    [out_name |-> out_name, standard_name |-> standard_name, long_name |-> long_name,
     units |-> units, stored_direction |-> stored_direction]

\* every combination of absent, empty and filled fields of one entry
FullEntries ==
    {Entry("time", standard_name, long_name, units, stored_direction) :
        standard_name \in {None, "", "time"}, long_name \in {None, "text"},
        units \in {None, "", "hours", "days since 1970-1-1"},
        stored_direction \in {None, "", "increasing", "decreasing"}}

\* the entries of tables of several entries: two of them share an out_name
\* and each has a field the other lacks
SampleEntries ==
    {Entry("time", "time", None, "days since 1970-1-1", "decreasing"),
     Entry("time", None, None, "hours", None),
     Entry("plev", "air_pressure", "pressure", "Pa", "decreasing")}

EntryIds == {"a", "b"}

\* a table whose axis_entry and variable_entry hold the same entries (the
\* two are compiled independently of each other)
Table(table_entries) == [axis_entry |-> table_entries, variable_entry |-> table_entries]

EntryDicts == Dicts(EntryIds, SampleEntries, Cardinality(EntryIds))

\* the table lists: up to MaxTables tables of sample entries, and one table
\* of one entry for every entry of FullEntries
CmorObjects ==
    SeqsUpTo({Table(d) : d \in EntryDicts}, MaxTables)
    \cup {<<Table(<<[k |-> "a", v |-> e]>>)>> : e \in FullEntries}

\* a dict with its items in the opposite iteration order
Reversed(d) == [i \in DOMAIN d |-> d[Len(d) + 1 - i]]

\* the table list with the entries of table t iterated in the opposite order
Reordered(cmor_objects, t) ==
    [i \in DOMAIN cmor_objects |->
        IF i = t THEN Table(Reversed(cmor_objects[i].axis_entry)) ELSE cmor_objects[i]]

CmorToCdm ==
    /\ pc = "idle"
    /\ \E cmor_objects \in CmorObjects :
        /\ call' = "cmor_to_cdm"
        /\ args' = [cmor_objects |-> cmor_objects]
        /\ entries' = <<>>
        /\ ret' = cmor_to_cdm(cmor_objects)
        /\ pc' = "done"

\* two runs of cmor_to_cdm_cli, on a table list and on the same list with
\* one table's entries in another iteration order
CmorToCdmCliTwice ==
    /\ pc = "idle"
    /\ \E cmor_objects \in CmorObjects :
        \E t \in DOMAIN cmor_objects :
            LET reordered == Reordered(cmor_objects, t)
            IN  /\ call' = "cmor_to_cdm_cli"
                /\ args' = [cmor_objects |-> cmor_objects, reordered |-> reordered, t |-> t]
                /\ entries' = <<>>
                /\ ret' = [first |-> cmor_to_cdm(cmor_objects),
                           second |-> cmor_to_cdm(reordered),
                           first_printed |-> dumps(cmor_to_cdm(cmor_objects)),
                           second_printed |-> dumps(cmor_to_cdm(reordered))]
                /\ pc' = "done"

NextCmor ==
    \/ CmorToCdm
    \/ CmorToCdmCliTwice

SpecCmor == Init /\ [][NextCmor]_vars

\* ================================================================= claims
\* the string form under which the code stores a key
Sanitised(key) == StrKey(key.s)

\* the value the last item with that string form carries
LastValue(mapping, name) ==
    LET last == CHOOSE i \in DOMAIN mapping :
                    /\ mapping[i].k.s = name
                    /\ \A j \in DOMAIN mapping : mapping[j].k.s = name => j <= i
    IN  mapping[last].v

HasName(mapping, name) == \E i \in DOMAIN mapping : mapping[i].k.s = name

NonStringItems(mapping) == SelectSeq(mapping, LAMBDA item : ~item.k.isstr)

WithEvent(log, event) == SelectSeq(log, LAMBDA d : d.event = event)

\* the 'non-string key' warnings of a mapping: one per non-string key, in order
IsNonStringWarnings(log, mapping) ==
    /\ Len(log) = Len(NonStringItems(mapping))
    /\ \A i \in DOMAIN log :
          /\ log[i].level = "warning"
          /\ log[i].event = "non-string key"
          /\ log[i].kw = <<NonStringItems(mapping)[i].k.s>>

\* ---------------------------------------------------------------------- C4
\* C4 as stated: sanitise_mapping returns a mapping whose keys are all
\* strings, every string key kept and every non-string key replaced by its
\* repr with the value of that very item, and it emits as many 'non-string
\* key' warnings as the input has non-string keys.
C4_ValuePreserved ==
    call = "sanitise_mapping" =>
        LET mapping == args.mapping
        IN  /\ \A i \in DOMAIN ret : ret[i].k.isstr
            /\ Range(Keys(ret)) = {Sanitised(mapping[i].k) : i \in DOMAIN mapping}
            /\ \A i \in DOMAIN mapping : Get(ret, Sanitised(mapping[i].k)) = mapping[i].v
            /\ Len(WithEvent(entries, "non-string key")) = Len(NonStringItems(mapping))

\* C4 amended: the keys of the result are all strings, namely the string
\* forms of the input keys; a key's value is preserved unless a later key has
\* the same string form, in which case the last value in iteration order
\* wins; the warnings are exactly one per non-string key.
C4_LastWriteWins ==
    call = "sanitise_mapping" =>
        LET mapping == args.mapping
        IN  /\ \A i \in DOMAIN ret : ret[i].k.isstr
            /\ DistinctKeys(ret)
            /\ Range(Keys(ret)) = {Sanitised(mapping[i].k) : i \in DOMAIN mapping}
            /\ \A i \in DOMAIN mapping :
                  Get(ret, Sanitised(mapping[i].k)) = LastValue(mapping, mapping[i].k.s)
            /\ \A i \in DOMAIN mapping :
                  (\A j \in DOMAIN mapping : mapping[j].k.s = mapping[i].k.s => j = i)
                      => Get(ret, Sanitised(mapping[i].k)) = mapping[i].v
            /\ IsNonStringWarnings(entries, mapping)

\* a mapping where a non-string key and a string key share a string form
C4_Witness ==
    /\ call = "sanitise_mapping"
    /\ \E i, j \in DOMAIN args.mapping :
          /\ i < j
          /\ ~args.mapping[i].k.isstr
          /\ args.mapping[j].k.isstr
          /\ args.mapping[i].k.s = args.mapping[j].k.s
          /\ args.mapping[i].v # args.mapping[j].v
    /\ Len(entries) = 1
    /\ Len(ret) = 2

\* ---------------------------------------------------------------------- C3
ConventionsEvents ==
    {"missing required 'Conventions' global attribute", "invalid 'Conventions' value"}

MissingRequired(mapping) == SelectSeq(CDM_ATTRS, LAMBDA a : ~HasName(mapping, a))

\* the diagnostics of the claim: log is the Conventions diagnostic (if any)
\* followed by one warning per missing required attribute, in schema order
IsAttrsDiagnostics(log, mapping, conv) ==
    /\ Len(log) = Len(conv) + Len(MissingRequired(mapping))
    /\ \A i \in DOMAIN log : log[i].level = "warning"
    /\ \A i \in DOMAIN conv : log[i].event = conv[i]
    /\ \A i \in DOMAIN MissingRequired(mapping) :
          /\ log[Len(conv) + i].event = "missing recommended global attribute"
          /\ log[Len(conv) + i].kw = <<MissingRequired(mapping)[i]>>

\* C3 as stated: check_dataset_attrs emits only warnings: first at most one
\* Conventions diagnostic (missing when absent, invalid when present but not
\* an accepted version), then one warning per absent required attribute in
\* schema order, and nothing else.
C3_OnlyConventionsThenRequired ==
    call = "check_dataset_attrs" =>
        LET mapping == args.dataset_attrs
            conv == IF ~HasKey(mapping, StrKey("Conventions"))
                    THEN <<"missing required 'Conventions' global attribute">>
                    ELSE IF Get(mapping, StrKey("Conventions")) \notin CF_CONVENTIONS
                    THEN <<"invalid 'Conventions' value">>
                    ELSE <<>>
        IN  IsAttrsDiagnostics(entries, mapping, conv)

\* C3 amended: check_dataset_attrs emits only warnings: first one 'non-string
\* key' warning per non-string key of the mapping, then at most one
\* Conventions diagnostic (missing when absent or None, invalid when any other
\* value than an accepted version), then one warning per required attribute
\* absent from the mapping, in schema order.  A compliant mapping with string
\* keys yields nothing, the empty mapping 1 + |CDM_ATTRS| warnings.
C3_AfterNonStringWarnings ==
    call = "check_dataset_attrs" =>
        LET mapping == args.dataset_attrs
            n == Len(NonStringItems(mapping))
            conventions == IF HasName(mapping, "Conventions")
                           THEN LastValue(mapping, "Conventions") ELSE None
            conv == IF conventions = None
                    THEN <<"missing required 'Conventions' global attribute">>
                    ELSE IF conventions \notin CF_CONVENTIONS
                    THEN <<"invalid 'Conventions' value">>
                    ELSE <<>>
        IN  /\ Len(entries) >= n
            /\ IsNonStringWarnings(SubSeq(entries, 1, n), mapping)
            /\ IsAttrsDiagnostics(SubSeq(entries, n + 1, Len(entries)), mapping, conv)
            /\ (mapping = <<>> =>
                    /\ Len(entries) = 1 + Len(CDM_ATTRS)
                    /\ entries[1].event \in ConventionsEvents)
            /\ (/\ n = 0
                /\ conventions \in CF_CONVENTIONS
                /\ MissingRequired(mapping) = <<>>) => entries = <<>>

\* a mapping with a non-string key, an invalid Conventions and a missing title
C3_Witness ==
    /\ call = "check_dataset_attrs"
    /\ Len(NonStringItems(args.dataset_attrs)) = 1
    /\ Get(args.dataset_attrs, StrKey("Conventions")) = "0.1"
    /\ ~HasName(args.dataset_attrs, "title")
    /\ HasName(args.dataset_attrs, "history")
    /\ Len(entries) >= 3
    /\ entries[1].event = "non-string key"
    /\ entries[2].event = "invalid 'Conventions' value"
    /\ entries[3].kw = <<"title">>

\* ---------------------------------------------------------------------- C5
\* the names of the definitions whose standard_name is the observed one
Matching(definitions, standard_name) ==
    {definitions[i].k : i \in {j \in DOMAIN definitions :
                                 /\ standard_name # None
                                 /\ definitions[j].v.standard_name = standard_name}}

\* C5: guess_definition returns a schema definition if and only if exactly
\* one definition has the observed standard_name; it then returns that
\* definition and emits exactly one 'wrong name for variable' warning naming
\* it.  Otherwise (standard_name absent, no match, several matches) it returns
\* the empty definition.
C5_UniqueMatchResolves ==
    call = "guess_definition" =>
        LET matching == Matching(args.definitions, Get(args.attrs, StrKey("standard_name")))
            wrong_name == WithEvent(entries, "wrong name for variable")
        IN  /\ (ret # EmptyDefinition) <=> (Cardinality(matching) = 1)
            /\ Cardinality(matching) = 1 =>
                  /\ \A name \in matching : ret = Get(args.definitions, name)
                  /\ Len(wrong_name) = 1
                  /\ wrong_name[1].level = "warning"
                  /\ \A name \in matching : wrong_name[1].kw = <<name>>
            /\ Cardinality(matching) # 1 => ret = EmptyDefinition

\* one of three definitions matches, and it is not the first
C5_Witness ==
    /\ call = "guess_definition"
    /\ Len(args.definitions) = 3
    /\ Matching(args.definitions, Get(args.attrs, StrKey("standard_name")))
           = {args.definitions[2].k}
    /\ ret = args.definitions[2].v
    /\ Len(entries) = 1
    /\ entries[1].event = "wrong name for variable"

\* ---------------------------------------------------------------------- C6
ResolutionEvents ==
    {"unexpected name for variable", "wrong name for variable",
     "variables with matching 'standard_name':",
     "missing recommended attribute 'standard_name'"}

ExpectedEvents ==
    {"'units' attribute not valid", "'units' attribute not equivalent to the expected",
     "'units' attribute not equal to the expected",
     "missing expected attribute 'standard_name'", "'standard_name' attribute not valid"}

\* C6: when the name is not in the schema and the standard_name matches two
\* or more definitions, check_variable emits exactly two resolution
\* diagnostics, 'unexpected name' then one listing warning whose candidates
\* are all the definitions with that standard_name, and goes on with the empty
\* definition: no expected-units or expected-standard_name diagnostic fires.
C6_AmbiguousIsUnresolved ==
    (/\ call = "check_variable"
     /\ ~HasKey(args.definitions, args.data_var_name)
     /\ HasName(args.data_var.attrs, "standard_name")
     /\ Cardinality(Matching(args.definitions,
                             LastValue(args.data_var.attrs, "standard_name"))) >= 2) =>
        LET resolution == SelectSeq(entries, LAMBDA d : d.event \in ResolutionEvents)
            matching == Matching(args.definitions,
                                 LastValue(args.data_var.attrs, "standard_name"))
        IN  /\ Len(resolution) = 2
            /\ resolution[1].event = "unexpected name for variable"
            /\ resolution[1].level = "warning"
            /\ resolution[2].event = "variables with matching 'standard_name':"
            /\ resolution[2].level = "warning"
            /\ Range(resolution[2].kw) = matching
            /\ Len(resolution[2].kw) = Cardinality(matching)
            /\ \A i \in DOMAIN entries : entries[i].event \notin ExpectedEvents

\* "dummy" with the standard_name of "tas" and "ta", and units that are not
\* those of either
C6_Witness ==
    /\ call = "check_variable"
    /\ args.data_var_name = "dummy"
    /\ args.definitions = CDM_DATA_VARS
    /\ Get(args.data_var.attrs, StrKey("standard_name")) = "air_temperature"
    /\ Get(args.data_var.attrs, StrKey("units")) = "Pa"
    /\ \E i \in DOMAIN entries : entries[i].kw = <<"tas", "ta">>

\* ---------------------------------------------------------------------- C7
\* some adjacent pair is not in the strict order asked for
OutOfOrder(values, increasing) ==
    \E i \in 1 .. Len(values) - 1 :
        IF increasing THEN values[i + 1] <= values[i] ELSE values[i + 1] >= values[i]

\* C7: check_coordinate_data emits exactly one error when the values are not
\* strictly monotonic in the expected direction and nothing otherwise; equal
\* adjacent values are a violation in both directions, and a sequence of
\* length 0 or 1 never gives an error.
C7_StrictMonotonicity ==
    call = "check_coordinate_data" =>
        LET values == args.coord.values
        IN  /\ OutOfOrder(values, args.increasing) =>
                  /\ Len(entries) = 1
                  /\ entries[1].level = "error"
                  /\ entries[1].event =
                         IF args.increasing
                         THEN "coordinate stored direction is not 'increasing'"
                         ELSE "coordinate stored direction is not 'decreasing'"
            /\ ~OutOfOrder(values, args.increasing) => entries = <<>>
            /\ (\E i \in 1 .. Len(values) - 1 : values[i] = values[i + 1]) => Len(entries) = 1
            /\ Len(values) <= 1 => entries = <<>>

\* values that only a tie keeps from being strictly decreasing
C7_Witness ==
    /\ call = "check_coordinate_data"
    /\ ~args.increasing
    /\ Len(args.coord.values) = 3
    /\ args.coord.values[1] = args.coord.values[2]
    /\ args.coord.values[2] > args.coord.values[3]
    /\ Len(entries) = 1
    /\ entries[1].level = "error"

\* ---------------------------------------------------------------------- C8
UnitsEvents ==
    {"'units' attribute not valid", "'units' attribute not equivalent to the expected",
     "'units' attribute not equal to the expected"}

UnitsDiagnostics(log) == SelectSeq(log, LAMBDA d : d.event \in UnitsEvents)

\* C8: with units present and an expected unit in the definition,
\* check_variable_attrs emits at most one unit-compatibility diagnostic:
\* 'not valid' for an unrecognisable unit, else 'not equivalent' for one that
\* does not convert to the expected unit (m vs K), else 'not equal' for one
\* that converts but is not the same unit (Celsius vs K), else none.  With no
\* expected unit (absent or None) it emits none.
C8_UnitsCascade ==
    call = "check_variable_attrs" =>
        LET attrs == args.variable_attrs
            expected_units == args.definition.units
            found == UnitsDiagnostics(entries)
            events == [i \in DOMAIN found |-> found[i].event]
        IN  /\ Len(found) <= 1
            /\ expected_units = None => found = <<>>
            /\ (HasName(attrs, "units") /\ expected_units # None) =>
                  LET units == UnitsTable[LastValue(attrs, "units")]
                      expected == UnitsTable[expected_units]
                  IN  events =
                         IF ~units.isvalid THEN <<"'units' attribute not valid">>
                         ELSE IF units.dimension # expected.dimension
                         THEN <<"'units' attribute not equivalent to the expected">>
                         ELSE IF units.scale # expected.scale
                         THEN <<"'units' attribute not equal to the expected">>
                         ELSE <<>>
            /\ (HasName(attrs, "units") /\ expected_units = "K") =>
                  /\ LastValue(attrs, "units") = "m" =>
                        events = <<"'units' attribute not equivalent to the expected">>
                  /\ LastValue(attrs, "units") = "Celsius" =>
                        events = <<"'units' attribute not equal to the expected">>
                  /\ LastValue(attrs, "units") = "kelvin" => events = <<>>

\* m against K: not convertible, hence not equal either
C8_Witness ==
    /\ call = "check_variable_attrs"
    /\ Get(args.variable_attrs, StrKey("units")) = "m"
    /\ args.definition.units = "K"
    /\ \E i \in DOMAIN entries :
          entries[i].event = "'units' attribute not equivalent to the expected"

\* --------------------------------------------------------------------- C10
\* C10: with no units attribute, check_variable_attrs emits no units
\* diagnostic for a datetime or timedelta dtype and exactly one 'missing
\* units' warning for any other, or unspecified, dtype; in both cases it
\* emits no unit-compatibility diagnostic.
C10_MissingUnits ==
    (call = "check_variable_attrs" /\ ~HasName(args.variable_attrs, "units")) =>
        LET missing == WithEvent(entries, "missing recommended attribute 'units'")
        IN  /\ args.dtype \in {"datetime64[ns]", "timedelta64[ns]"} => missing = <<>>
            /\ args.dtype \notin {"datetime64[ns]", "timedelta64[ns]"} =>
                  /\ Len(missing) = 1
                  /\ missing[1].level = "warning"
            /\ UnitsDiagnostics(entries) = <<>>

\* a timedelta variable without units, checked against a definition with units
C10_Witness ==
    /\ call = "check_variable_attrs"
    /\ ~HasName(args.variable_attrs, "units")
    /\ args.dtype = "timedelta64[ns]"
    /\ args.definition.units = "K"
    /\ \A i \in DOMAIN entries : entries[i].event # "missing recommended attribute 'units'"
    /\ Len(entries) >= 1

\* ---------------------------------------------------------------------- C2
AtMostOne(log) == WithEvent(log, "file must have at most one non-auxiliary variable")

IsAncillaryKey(key) == key.isstr /\ key.s \in CDM_ANCILLARY_VARS

\* C2 as stated: the 'at most one non-auxiliary variable' error is emitted
\* exactly once when more than one variable of the mapping has a name outside
\* the ancillary set, and never otherwise.
C2_CountsVariables ==
    call = "check_dataset_data_vars" =>
        LET data_vars == args.dataset_data_vars
            payload == {i \in DOMAIN data_vars : ~IsAncillaryKey(data_vars[i].k)}
        IN  Len(AtMostOne(entries)) = IF Cardinality(payload) > 1 THEN 1 ELSE 0

\* C2 amended: the error is emitted exactly once when the variables of the
\* mapping have more than one distinct sanitised name (string form of the
\* key) outside the ancillary set, and never otherwise, whatever the other
\* diagnostics; its data_vars field lists every payload name.
C2_CountsSanitisedNames ==
    call = "check_dataset_data_vars" =>
        LET data_vars == args.dataset_data_vars
            payload == {data_vars[i].k.s : i \in DOMAIN data_vars} \ CDM_ANCILLARY_VARS
            found == AtMostOne(entries)
        IN  /\ Len(found) = IF Cardinality(payload) > 1 THEN 1 ELSE 0
            /\ \A i \in DOMAIN found :
                  /\ found[i].level = "error"
                  /\ Range(found[i].kw) = payload
                  /\ Len(found[i].kw) = Cardinality(payload)
            /\ Range(Keys(ret[1])) = {StrKey(name) : name \in payload}

\* two payload variables and an ancillary one, with other diagnostics around
C2_Witness ==
    /\ call = "check_dataset_data_vars"
    /\ Len(args.dataset_data_vars) = 3
    /\ HasKey(args.dataset_data_vars, StrKey("crs"))
    /\ HasKey(args.dataset_data_vars, ObjKey("1"))
    /\ Len(AtMostOne(entries)) = 1
    /\ Len(entries) > 3
    /\ Len(ret[1]) = 2

\* ---------------------------------------------------------------------- C1
GlobalAttrEvents ==
    ConventionsEvents \cup {"missing recommended global attribute"}

\* the stage a diagnostic comes from: the logger of a coordinate's checks is
\* bound to coord_name, that of a data variable's checks to data_var_name
IsGlobalAttr(d) == d.event \in GlobalAttrEvents
IsAtMostOne(d) == d.event = "file must have at most one non-auxiliary variable"
IsDataVar(d) == d.bound.data_var_name # None
IsCoord(d) == d.bound.coord_name # None

\* no diagnostic of the kind Later comes before one of the kind Earlier
Precedes(log, Earlier(_), Later(_)) ==
    \A i, j \in DOMAIN log : (Later(log[i]) /\ Earlier(log[j])) => i > j

\* C1 as stated: the diagnostics of check_dataset are ordered by stage: the
\* global-attribute diagnostics, then the 'at most one non-auxiliary
\* variable' error, then the diagnostics of the data variables, and only
\* then those of the coordinates.
C1_DataVarsBeforeCoords ==
    call = "check_dataset" =>
        /\ Precedes(entries, IsGlobalAttr, IsAtMostOne)
        /\ Precedes(entries, IsGlobalAttr, IsDataVar)
        /\ Precedes(entries, IsGlobalAttr, IsCoord)
        /\ Precedes(entries, IsAtMostOne, IsDataVar)
        /\ Precedes(entries, IsAtMostOne, IsCoord)
        /\ Precedes(entries, IsDataVar, IsCoord)

\* C1 amended: the diagnostics of check_dataset are ordered by stage: the
\* global-attribute diagnostics, then the diagnostics of the coordinates,
\* then the 'at most one non-auxiliary variable' error, then the diagnostics
\* of the payload data variables; no data-variable diagnostic precedes a
\* coordinate diagnostic.
C1_CoordsBeforeDataVars ==
    call = "check_dataset" =>
        /\ Precedes(entries, IsGlobalAttr, IsCoord)
        /\ Precedes(entries, IsGlobalAttr, IsAtMostOne)
        /\ Precedes(entries, IsGlobalAttr, IsDataVar)
        /\ Precedes(entries, IsCoord, IsAtMostOne)
        /\ Precedes(entries, IsCoord, IsDataVar)
        /\ Precedes(entries, IsAtMostOne, IsDataVar)
        /\ \A i \in DOMAIN entries : ~(IsCoord(entries[i]) /\ IsDataVar(entries[i]))

\* a finished check with diagnostics of all four stages
C1_Witness ==
    /\ call = "check_dataset"
    /\ pc = "done"
    /\ \E i \in DOMAIN entries : IsGlobalAttr(entries[i])
    /\ \E i \in DOMAIN entries : IsCoord(entries[i])
    /\ \E i \in DOMAIN entries : IsAtMostOne(entries[i])
    /\ \E i \in DOMAIN entries : IsDataVar(entries[i])

\* ---------------------------------------------------------------------- C9
\* C9: for a coordinate whose dtype is not a time dtype and whose attributes
\* lack units, the dataset check emits an error-level diagnostic for the
\* missing units.
C9_CoordinateUnitsAreRequired ==
    (call = "check_dataset" /\ pc = "done") =>
        \A c \in DOMAIN args.dataset.coords :
            LET coord == args.dataset.coords[c]
            IN  (/\ coord.v.dtype \notin {"datetime64[ns]", "timedelta64[ns]"}
                 /\ ~HasName(coord.v.attrs, "units")) =>
                    \E i \in DOMAIN entries :
                        /\ entries[i].bound.coord_name = coord.k.s
                        /\ entries[i].level = "error"
                        /\ entries[i].event = "missing recommended attribute 'units'"

\* --------------------------------------------------------------------- C11
InSchema(dim) == \E i \in DOMAIN CDM_COORDS : CDM_COORDS[i].k = dim

\* C11: check_variable_data emits at most one diagnostic per dimension, in
\* dimension order: the warning 'unknown dimension' for a dimension that is
\* not a coordinate of the schema, the error 'dimension with no associated
\* coordinate' for one that is in the schema while the array has no
\* coordinate of that name, and nothing otherwise; a dimension unknown to the
\* schema is never an error, even when its coordinate is missing as well.
C11_OneDiagnosticPerDimension ==
    call = "check_variable_data" =>
        LET dims == args.data_var.dims
            coords == args.data_var.coords
            flagged == SelectSeq(dims, LAMBDA dim : ~InSchema(dim) \/ dim \notin coords)
        IN  /\ Len(entries) = Len(flagged)
            /\ \A i \in DOMAIN flagged :
                  /\ entries[i].kw = <<flagged[i]>>
                  /\ ~InSchema(flagged[i]) =>
                        /\ entries[i].level = "warning"
                        /\ entries[i].event = "unknown dimension"
                  /\ InSchema(flagged[i]) =>
                        /\ entries[i].level = "error"
                        /\ entries[i].event = "dimension with no associated coordinate"

\* an unknown dimension without coordinate, then a known one without coordinate
C11_Witness ==
    /\ call = "check_variable_data"
    /\ args.data_var.dims = <<"lon1", "plev">>
    /\ args.data_var.coords = {"time"}
    /\ Len(entries) = 2
    /\ entries[1].level = "warning"
    /\ entries[2].level = "error"


\* ---- cmor_to_cdm
\* the entries of a table with a given out_name, in iteration order
Named(table_entries, out_name) ==
    SelectSeq(table_entries, LAMBDA item : item.v.out_name = out_name)

\* the last entry with that out_name of the last table that has one
LaterEntry(cmor_objects, out_name) ==
    LET t == CHOOSE i \in DOMAIN cmor_objects :
                 /\ Named(cmor_objects[i].axis_entry, out_name) # <<>>
                 /\ \A j \in DOMAIN cmor_objects :
                        j > i => Named(cmor_objects[j].axis_entry, out_name) = <<>>
         named == Named(cmor_objects[t].axis_entry, out_name)
    IN  named[Len(named)].v

TablesWith(cmor_objects, out_name) ==
    {i \in DOMAIN cmor_objects : Named(cmor_objects[i].axis_entry, out_name) # <<>>}

\* C12: when entries of several tables share an out_name, the compiled
\* coordinate definition and the compiled data-variable definition under that
\* out_name are the filtered record of the later table's entry alone: an
\* absent field of the later entry is absent from the compiled definition.
C12_LaterTableOverwrites ==
    call = "cmor_to_cdm" =>
        \A n \in DOMAIN OutNames :
            LET out_name == OutNames[n]
            IN  IF TablesWith(args.cmor_objects, out_name) = {}
                THEN ~HasKey(ret.coords, out_name) /\ ~HasKey(ret.data_vars, out_name)
                ELSE LET entry == LaterEntry(args.cmor_objects, out_name)
                     IN  /\ Get(ret.coords, out_name) = cdm_coord_of(entry)
                         /\ Get(ret.data_vars, out_name) = cdm_data_var_of(entry)
                         /\ \A f \in DefinitionFields :
                                entry[f] = None =>
                                    /\ Get(ret.coords, out_name)[f] = None
                                    /\ Get(ret.data_vars, out_name)[f] = None

\* the earlier table gives time a stored_direction and a standard_name, the
\* later one gives it units only
C12_Witness ==
    /\ call = "cmor_to_cdm"
    /\ Len(args.cmor_objects) = 2
    /\ args.cmor_objects[1].axis_entry =
           <<[k |-> "a", v |-> Entry("time", "time", None, "days since 1970-1-1", "decreasing")]>>
    /\ args.cmor_objects[2].axis_entry =
           <<[k |-> "a", v |-> Entry("time", None, None, "hours", None)]>>
    /\ Get(ret.coords, "time") =
           [standard_name |-> None, long_name |-> None, units |-> "hours",
            stored_direction |-> None]
    /\ Get(ret.data_vars, "time") =
           [standard_name |-> None, long_name |-> None, units |-> "hours",
            stored_direction |-> None]


\* C13: no compiled coordinate definition has units that are empty or hold
\* a 'since' expression, none has a stored_direction that is 'increasing' or
\* empty; the units and the stored_direction of the axis entry that have any
\* other value are copied unchanged.
C13_CoordinateFieldsFiltered ==
    call = "cmor_to_cdm" =>
        \A i \in DOMAIN ret.coords :
            LET cdm_coord == ret.coords[i].v
                entry == LaterEntry(args.cmor_objects, ret.coords[i].k)
            IN  /\ cdm_coord.units # ""
                /\ ~contains_since(cdm_coord.units)
                /\ cdm_coord.stored_direction \notin {"increasing", ""}
                /\ entry.units \notin {None, ""} /\ ~contains_since(entry.units)
                       => cdm_coord.units = entry.units
                /\ entry.stored_direction \notin {None, "", "increasing"}
                       => cdm_coord.stored_direction = entry.stored_direction
                /\ cdm_coord.units \in {None, entry.units}
                /\ cdm_coord.stored_direction \in {None, entry.stored_direction}

\* an axis with epoch-relative units and a non-default direction: the units
\* are dropped, the direction is copied
C13_Witness ==
    /\ call = "cmor_to_cdm"
    /\ Len(args.cmor_objects) = 1
    /\ args.cmor_objects[1].axis_entry =
           <<[k |-> "a", v |-> Entry("time", "time", None, "days since 1970-1-1", "decreasing")]>>
    /\ Get(ret.coords, "time") =
           [standard_name |-> "time", long_name |-> None, units |-> None,
            stored_direction |-> "decreasing"]


\* the out_names of the entries of a table are pairwise distinct
DistinctOutNames(table_entries) ==
    \A i, j \in DOMAIN table_entries :
        table_entries[i].v.out_name = table_entries[j].v.out_name => i = j

\* C15: two table lists that differ only in the iteration order of the
\* entries of one table whose out_names are distinct compile to the same
\* coords and data_vars mappings, item for item, and print the same
\* key-sorted text; a table list compiled twice gives the same output.
C15_IterationOrderIrrelevant ==
    call = "cmor_to_cdm_cli" =>
        /\ args.reordered = args.cmor_objects =>
               ret.second = ret.first /\ ret.second_printed = ret.first_printed
        /\ DistinctOutNames(args.cmor_objects[args.t].axis_entry) =>
               /\ ret.second.coords = ret.first.coords
               /\ ret.second.data_vars = ret.first.data_vars
               /\ ret.second_printed = ret.first_printed

\* a table of two entries, time before plev in one run and after it in the
\* other
C15_Witness ==
    /\ call = "cmor_to_cdm_cli"
    /\ Len(args.cmor_objects[args.t].axis_entry) = 2
    /\ DistinctOutNames(args.cmor_objects[args.t].axis_entry)
    /\ args.cmor_objects[args.t].axis_entry[1].v.out_name = "time"
    /\ args.reordered[args.t].axis_entry[1].v.out_name = "plev"
    /\ Keys(ret.first.coords) = <<"plev", "time">>
    /\ ret.second = ret.first
    /\ ret.second_printed = ret.first_printed


\* C18: every compiled data-variable definition holds nothing but a
\* standard_name, a long_name and units, each non-empty when present, never a
\* stored_direction, and its units are never a 'since' expression.
C18_VariableFieldsFiltered ==
    call = "cmor_to_cdm" =>
        \A i \in DOMAIN ret.data_vars :
            LET cdm_data_var == ret.data_vars[i].v
            IN  /\ cdm_data_var.standard_name # ""
                /\ cdm_data_var.long_name # ""
                /\ cdm_data_var.units # ""
                /\ cdm_data_var.stored_direction = None
                /\ ~contains_since(cdm_data_var.units)


\* ---- check_dataset runs to completion
RECURSIVE Flatten(_)
Flatten(seqs) == IF seqs = <<>> THEN <<>> ELSE seqs[1] \o Flatten(Tail(seqs))

\* the diagnostics of every entity of a mapping, each checked on its own
EachChecked(items, bind_key, definitions) ==
    Flatten([i \in DOMAIN items |->
                check_variable(items[i].k.s, items[i].v, definitions,
                               Bind(LOGGER, bind_key, items[i].k.s))])

Payload(data_vars) ==
    SelectSeq(sanitise_mapping(data_vars, LOGGER).ret,
              LAMBDA item : item.k.s \notin CDM_ANCILLARY_VARS)

\* the diagnostics of a whole scan of a dataset
FullScan(dataset) ==
    check_dataset_attrs(dataset.attrs, LOGGER)
    \o sanitise_mapping(dataset.coords, LOGGER).out
    \o EachChecked(sanitise_mapping(dataset.coords, LOGGER).ret, "coord_name", CDM_COORDS)
    \o sanitise_mapping(dataset.data_vars, LOGGER).out
    \o (IF Len(Payload(dataset.data_vars)) > 1
        THEN <<Error(LOGGER, "file must have at most one non-auxiliary variable",
                     [i \in DOMAIN Payload(dataset.data_vars) |->
                         Payload(dataset.data_vars)[i].k.s])>>
        ELSE <<>>)
    \o EachChecked(Payload(dataset.data_vars), "data_var_name", CDM_DATA_VARS)

\* C14: check_dataset terminates, and when it has its log holds the
\* diagnostics of the global attributes followed by those of every
\* coordinate and of every payload data variable, each entity checked in full
\* (resolution, attributes, data) whatever was logged before it.
C14_ScanRunsToCompletion ==
    /\ (call = "check_dataset") ~> (pc = "done")
    /\ [](pc = "done" => entries = FullScan(args.dataset))

\* the first coordinate has an error, two payload variables give the 'at
\* most one' error, and the entities after them are still checked
C14_Witness ==
    /\ call = "check_dataset"
    /\ pc = "done"
    /\ Len(args.dataset.coords) = 2
    /\ Len(args.dataset.data_vars) = 2
    /\ \E i, j, k, l \in DOMAIN entries :
        /\ i < j /\ j < k /\ k < l
        /\ entries[i].level = "error"
        /\ entries[i].bound.coord_name = args.dataset.coords[1].k.s
        /\ entries[j].bound.coord_name = args.dataset.coords[2].k.s
        /\ entries[k].level = "error"
        /\ entries[k].event = "file must have at most one non-auxiliary variable"
        /\ entries[l].bound.data_var_name = args.dataset.data_vars[2].k.s


\* ---- the order of the diagnostics of one entity
CompletenessEvents ==
    {"missing recommended attribute 'long_name'", "missing recommended attribute 'units'"}

StandardNameEvents ==
    {"missing expected attribute 'standard_name'", "'standard_name' attribute not valid"}

StructuralEvents ==
    {"unknown dimension", "dimension with no associated coordinate",
     "coordinate stored direction is not 'increasing'",
     "coordinate stored direction is not 'decreasing'"}

IsCompleteness(d) == d.event \in CompletenessEvents

IsUnitCompatibility(d) == d.event \in UnitsEvents

\* a diagnostic of the standard_name check of check_variable_attrs, which
\* binds the expected standard_name (definition resolution logs
\* 'standard_name not valid' too, without it)
IsStandardNameCheck(d) ==
    d.event \in StandardNameEvents /\ d.bound.expected_standard_name # None

IsStructural(d) == d.event \in StructuralEvents

IsStatedCompleteness(d) ==
    IsCompleteness(d) \/ d.event = "missing expected attribute 'standard_name'"

IsBeforeStandardName(d) == IsCompleteness(d) \/ IsUnitCompatibility(d)

IsAttributeCheck(d) == IsBeforeStandardName(d) \/ IsStandardNameCheck(d)

\* C16 as stated: 'missing expected standard_name' counts as attribute
\* completeness: no completeness diagnostic follows a unit-compatibility
\* diagnostic, and no unit diagnostic follows a structural one.
C16_CompletenessBeforeUnits ==
    call = "check_variable" =>
        /\ Precedes(entries, IsStatedCompleteness, IsUnitCompatibility)
        /\ Precedes(entries, IsUnitCompatibility, IsStructural)

\* C16: the diagnostics of one entity come in the order missing long_name and
\* missing units, unit compatibility, standard_name check, structural: none
\* of a later group comes before one of an earlier group.
C16_StandardNameAfterUnits ==
    call = "check_variable" =>
        /\ Precedes(entries, IsCompleteness, IsUnitCompatibility)
        /\ Precedes(entries, IsBeforeStandardName, IsStandardNameCheck)
        /\ Precedes(entries, IsAttributeCheck, IsStructural)

\* tas with no long_name, units Pa, no standard_name, over an unknown dimension
C16_Witness ==
    /\ call = "check_variable"
    /\ args.data_var_name = "tas"
    /\ \E i, j, k, l \in DOMAIN entries :
        /\ i < j /\ j < k /\ k < l
        /\ entries[i].event = "missing recommended attribute 'long_name'"
        /\ entries[j].event = "'units' attribute not equivalent to the expected"
        /\ entries[k].event = "missing expected attribute 'standard_name'"
        /\ entries[l].event = "unknown dimension"


\* ---- when the monotonicity check runs
\* the definition an entity is checked against: the one of its name, else the
\* only one with its standard_name, else the empty one
Resolved(data_var_name, attrs, definitions) ==
    IF HasKey(definitions, data_var_name) THEN Get(definitions, data_var_name)
    ELSE LET matching == Matching(definitions, Get(attrs, StrKey("standard_name")))
         IN  IF Cardinality(matching) = 1
             THEN Get(definitions, CHOOSE name \in matching : TRUE)
             ELSE EmptyDefinition

DirectionErrors(log) ==
    SelectSeq(log, LAMBDA d : d.event \in {"coordinate stored direction is not 'increasing'",
                                          "coordinate stored direction is not 'decreasing'"})

\* C17: check_variable checks the monotonicity of an entity exactly when its
\* dimensions are its own name alone: it logs one error when the values are
\* not strictly monotonic in the direction of the resolved definition
\* (increasing unless the definition has a stored_direction other than
\* 'increasing'; increasing for the empty definition), and no direction error
\* for a scalar or for an entity indexed by another dimension.
C17_MonotonicityOfSelfNamedAxis ==
    call = "check_variable" =>
        LET data_var == args.data_var
            definition == Resolved(args.data_var_name, data_var.attrs, args.definitions)
            increasing == definition.stored_direction \in {None, "increasing"}
            errors == DirectionErrors(entries)
        IN  IF data_var.dims = <<args.data_var_name>>
               /\ OutOfOrder(data_var.values, increasing)
            THEN /\ Len(errors) = 1
                 /\ errors[1].level = "error"
                 /\ errors[1].event =
                        IF increasing THEN "coordinate stored direction is not 'increasing'"
                        ELSE "coordinate stored direction is not 'decreasing'"
            ELSE errors = <<>>

\* an axis named dummy whose standard_name is the one of plev: its
\* increasing values are an error, plev being stored decreasing
C17_Witness ==
    /\ call = "check_variable"
    /\ args.data_var_name = "dummy"
    /\ args.data_var.dims = <<"dummy">>
    /\ args.definitions = CDM_COORDS
    /\ Get(args.data_var.attrs, StrKey("standard_name")) = "air_pressure"
    /\ args.data_var.values = <<0, 1>>
    /\ Len(DirectionErrors(entries)) = 1
    /\ DirectionErrors(entries)[1].event = "coordinate stored direction is not 'decreasing'"


\* C19: the number of 'non-string key' warnings check_variable emits for an
\* entity is the number of non-string keys of its attributes.
C19_OneWarningPerNonStringKey ==
    call = "check_variable" =>
        Len(WithEvent(entries, "non-string key")) = Len(NonStringItems(args.data_var.attrs))

====
